---- MODULE Spec2Model ----
(***************************************************************************)
(* A model of the parser-combinator library parsec.go.                     *)
(*                                                                         *)
(* A Parser (a Go closure over *ParseState) is modelled as a term: a tuple *)
(* whose first element names the closure and whose other elements are the  *)
(* values the closure captured.  The constructors below build the same     *)
(* terms the Go constructors build closures, and Run applies a term to a   *)
(* cursor the way calling the closure does.  The function argument of Bind *)
(* is a term as well (a captured-variables tuple), applied by Apply.       *)
(*                                                                         *)
(* A Go string or []byte is a sequence of one-character strings.  A result *)
(* value (interface{}) is a tagged tuple: <<"nil">>, <<"byte", c>>,        *)
(* <<"str", s>> or <<"list", xs>>.                                         *)
(***************************************************************************)
EXTENDS Integers, Sequences, FiniteSets

VARIABLES st, pre, op, res

vars == <<st, pre, op, res>>

\* Bounds of the model.
MaxLen == 3
MaxLine == 4
MaxCsvLen == 4
MaxHexLen == 2

NL == "\n"
CR == "\r"
NUL == "\\000"
\* The grave accent, byte 0x60, which a TLA+ string cannot hold.
Grave == "0x60"

-----------------------------------------------------------------------------
\* Result values and errors.

Nil == <<"nil">>
ByteVal(c) == <<"byte", c>>
StrVal(s) == <<"str", s>>
ListVal(xs) == <<"list", xs>>

ParseErr(reason, line) == [Reason |-> reason, Line |-> line]
NoErr == [Reason |-> <<>>, Line |-> 0]

\* What a call p(st) leaves behind: the cursor, and the pair (value, error).
Ok(s, x) == [st |-> s, ok |-> TRUE, val |-> x, err |-> NoErr]
Failed(s, e) == [st |-> s, ok |-> FALSE, val |-> Nil, err |-> e]

\* The cursor.  Log is a history variable, not a field of the Go struct: the
\* indexes of the named parsers (Ref terms) invoked on this cursor, in order.
ParseState(source) == [Source |-> source, Pos |-> 0, Line |-> 1, Log |-> <<>>]

\* next with its predicate given as the set of bytes the predicate accepts.
next(s, accept) ==
  IF s.Pos < Len(s.Source)
  THEN LET c == s.Source[s.Pos + 1] IN
       IF c \notin accept
       THEN [st |-> s, c |-> c, ok |-> FALSE]
       ELSE [st |-> [s EXCEPT !.Pos = @ + 1,
                              !.Line = IF c = NL THEN @ + 1 ELSE @],
             c |-> c, ok |-> TRUE]
  ELSE [st |-> s, c |-> NUL, ok |-> FALSE]

trap(s, reason) == ParseErr(reason, s.Line)

-----------------------------------------------------------------------------
\* The byte sets of the ready-made parsers, and the bytes of the model: the
\* bytes of those sets and the blanks and line ends.

LowerBytes ==
  << "a", "b", "c", "d", "e", "f", "g", "h", "i", "j", "k", "l", "m", "n",
     "o", "p", "q", "r", "s", "t", "u", "v", "w", "x", "y", "z" >>

UpperBytes ==
  << "A", "B", "C", "D", "E", "F", "G", "H", "I", "J", "K", "L", "M", "N",
     "O", "P", "Q", "R", "S", "T", "U", "V", "W", "X", "Y", "Z" >>

DigitBytes ==
  << "0", "1", "2", "3", "4", "5", "6", "7", "8", "9" >>

HexBytes ==
  << "0", "1", "2", "3", "4", "5", "6", "7", "8", "9", "a", "c", "d", "e",
     "f", "A", "B", "C", "D", "E", "F" >>

PunctuationBytes ==
  << "!", "@", "#", "$", "%", "^", "&", "*", "(", ")", "-", "=", "+", "[",
     "]", "{", "}", "\\", "|", ";", ":", "'", "\"", ",", ".", "/", "<",
     ">", "?", "~", Grave >>

SpaceBytes == <<" ", "\t">>

NewlineBytes == <<CR, NL>>

Range(s) == {s[i] : i \in 1..Len(s)}

Byte ==
  Range(LowerBytes) \cup Range(UpperBytes) \cup Range(DigitBytes)
    \cup Range(PunctuationBytes) \cup Range(SpaceBytes) \cup Range(NewlineBytes)

-----------------------------------------------------------------------------
\* Parser constructors.

AnyChar == <<"AnyChar">>
Eof == <<"Eof">>
Char(c) == <<"Char", c>>
OneOf(set) == <<"OneOf", set>>
NoneOf(set) == <<"NoneOf", set>>
String(s) == <<"String", s>>
Return(x) == <<"Return", x>>
Fail(msg) == <<"Fail", msg>>
Bind(p, f) == <<"Bind", p, f>>
Then(p1, p2) == <<"Then", p1, p2>>
Either(p1, p2) == <<"Either", p1, p2>>
Or(p, p2) == Either(p, p2)
Try(p) == <<"Try", p>>

\* A named parser: Run records its invocation in Log, then runs Parsers[i].
Ref(i) == <<"Ref", i>>

ToString(p) == Bind(p, <<"ToString.func">>)
\* A slip: appendx that puts x last.
appendxLast(x, xs) == ListVal(xs[2] \o <<x>>)

appendx(x, xs) == ListVal(<<x>> \o xs[2])
Many1(p) == Bind(p, <<"Many1.func", p>>)
Many(p) == Or(Many1(p), Return(ListVal(<<>>)))
ManyTill(p, end) ==
  Either(Then(Try(end), Return(ListVal(<<>>))), Bind(p, <<"ManyTill.func", p, end>>))
Skip(p) == Or(Then(p, Return(Nil)), Return(Nil))
SkipMany(p) == Skip(Many(p))
Between(p, start, end) == Then(start, Bind(p, <<"Between.keep", end>>))
SepBy1(p, sep) == Bind(p, <<"SepBy1.func", p, sep>>)
SepBy(p, sep) == Or(SepBy1(p, sep), Return(ListVal(<<>>)))

\* The bytes of a list of byte values (the loop of ToString).
RECURSIVE bytesOf(_)
bytesOf(xs) == IF xs = <<>> THEN <<>> ELSE <<Head(xs)[2]>> \o bytesOf(Tail(xs))

\* f(x) for the function values handed to Bind.
Apply(f, x) ==
  CASE f[1] = "ToString.func" -> Return(StrVal(bytesOf(x[2])))
    [] f[1] = "Many1.func" -> Bind(Many(f[2]), <<"cons", x>>)
    [] f[1] = "ManyTill.func" -> Bind(ManyTill(f[2], f[3]), <<"cons", x>>)
    [] f[1] = "SepBy1.func" -> Bind(Many(Then(f[3], f[2])), <<"cons", x>>)
    [] f[1] = "cons" -> Return(appendx(f[2], x))
    [] f[1] = "Between.keep" -> Then(f[2], Return(x))

\* The ready-made parsers.  Eol is built from the named parsers 1 (Eof) and
\* 2 (Newline) of Parsers below, so that Log shows which of them ran.
Lowercase == OneOf(LowerBytes)
Uppercase == OneOf(UpperBytes)
Letter == Either(Lowercase, Uppercase)
Letters == Many1(Letter)
Digit == OneOf(DigitBytes)
Digits == Many1(Digit)
AlphaNum == Either(Letter, Digit)
AlphaNums == Many1(AlphaNum)
HexDigit == OneOf(HexBytes)
HexDigits == Many1(HexDigit)
Punctuation == OneOf(PunctuationBytes)
Space == OneOf(SpaceBytes)
Spaces == Skip(Space)
Newline == OneOf(NewlineBytes)
Eol == Either(Ref(1), Ref(2))

-----------------------------------------------------------------------------
\* The closures: p(st).

RECURSIVE Run(_, _)

AnyCharRun(s) ==
  LET n == next(s, Byte) IN
  IF n.ok THEN Ok(n.st, ByteVal(n.c))
  ELSE Failed(n.st, trap(n.st, <<"Unexpected end of file">>))

\* A slip: Eof that looks at the next byte without consuming it.
EofRunPeek(s) ==
  IF s.Pos < Len(s.Source)
  THEN Failed(s, trap(s, <<"Expected end of file but got '%c'", s.Source[s.Pos + 1]>>))
  ELSE Ok(s, Nil)

EofRun(s) ==
  LET n == next(s, Byte) IN
  IF n.ok THEN Failed(n.st, trap(n.st, <<"Expected end of file but got '%c'", n.c>>))
  ELSE Ok(n.st, Nil)

CharRun(c, s) ==
  LET n == next(s, {c}) IN
  IF n.ok THEN Ok(n.st, ByteVal(n.c))
  ELSE Failed(n.st, trap(n.st, <<"Expected '%c'", c>>))

OneOfRun(set, s) ==
  LET n == next(s, Range(set)) IN
  IF n.ok THEN Ok(n.st, ByteVal(n.c))
  ELSE Failed(n.st, trap(n.st, <<"Expected one of '%s' but got '%c'", set, n.c>>))

\* A slip: NoneOf with the test of IndexByte turned round.
NoneOfRunInverted(set, s) ==
  LET n == next(s, Range(set)) IN
  IF n.ok THEN Ok(n.st, ByteVal(n.c))
  ELSE Failed(n.st, trap(n.st, <<"Unexpected '%c'", n.c>>))

NoneOfRun(set, s) ==
  LET n == next(s, Byte \ Range(set)) IN
  IF n.ok THEN Ok(n.st, ByteVal(n.c))
  ELSE Failed(n.st, trap(n.st, <<"Unexpected '%c'", n.c>>))

\* The loop of String over the bytes of s from index i on; oldPos is saved
\* by the caller.
RECURSIVE StringLoop(_, _, _, _)
StringLoop(str, i, oldPos, s) ==
  IF i > Len(str) THEN Ok(s, StrVal(str))
  ELSE LET n == next(s, {str[i]}) IN
       IF n.ok = FALSE
       THEN LET back == [n.st EXCEPT !.Pos = oldPos] IN
            Failed(back, trap(back, <<"Expected '%s'", str>>))
       ELSE StringLoop(str, i + 1, oldPos, n.st)

\* A slip: String that restores Pos to the start of the input.
StringRunFromStart(str, s) == StringLoop(str, 1, 0, s)

StringRun(str, s) == StringLoop(str, 1, s.Pos, s)

ReturnRun(x, s) == Ok(s, x)

FailRun(msg, s) == Failed(s, trap(s, <<msg>>))

BindRun(p, f, s) ==
  LET r == Run(p, s) IN
  IF ~r.ok THEN Failed(r.st, r.err)
  ELSE Run(Apply(f, r.val), r.st)

ThenRun(p1, p2, s) ==
  LET r == Run(p1, s) IN
  IF ~r.ok THEN Failed(r.st, r.err)
  ELSE Run(p2, r.st)

\* A slip: Either that runs p2 after every failure of p1.
EitherRunAlways(p1, p2, s) ==
  LET r == Run(p1, s) IN
  IF r.ok THEN Ok(r.st, r.val) ELSE Run(p2, r.st)

\* A slip: Either that never runs p2.
EitherRunFirst(p1, p2, s) ==
  LET r == Run(p1, s) IN
  IF r.ok THEN Ok(r.st, r.val) ELSE Failed(r.st, r.err)

EitherRun(p1, p2, s) ==
  LET oldPos == s.Pos
      r == Run(p1, s)
  IN IF r.ok THEN Ok(r.st, r.val)
     ELSE IF r.st.Pos = oldPos THEN Run(p2, r.st)
     ELSE Failed(r.st, r.err)

\* A slip: Try that leaves Pos where p left it.
TryRunNoRestore(p, s) ==
  LET r == Run(p, s) IN
  IF r.ok THEN Ok(r.st, r.val) ELSE Failed(r.st, r.err)

TryRun(p, s) ==
  LET oldPos == s.Pos
      r == Run(p, s)
  IN IF r.ok THEN Ok(r.st, r.val)
     ELSE Failed([r.st EXCEPT !.Pos = oldPos], r.err)

\* The named parsers the operations below are applied to.
Parsers ==
  << Eof,
     Newline,
     Char("a"),
     AnyChar,
     String(<<NL, "a">>),
     Then(Char("a"), Char("b")),
     Return(ByteVal("b")),
     Fail("no") >>

NParsers == Len(Parsers)

Run(p, s) ==
  CASE p[1] = "AnyChar" -> AnyCharRun(s)
    [] p[1] = "Eof" -> EofRun(s)
    [] p[1] = "Char" -> CharRun(p[2], s)
    [] p[1] = "OneOf" -> OneOfRun(p[2], s)
    [] p[1] = "NoneOf" -> NoneOfRun(p[2], s)
    [] p[1] = "String" -> StringRun(p[2], s)
    [] p[1] = "Return" -> ReturnRun(p[2], s)
    [] p[1] = "Fail" -> FailRun(p[2], s)
    [] p[1] = "Bind" -> BindRun(p[2], p[3], s)
    [] p[1] = "Then" -> ThenRun(p[2], p[3], s)
    [] p[1] = "Either" -> EitherRun(p[2], p[3], s)
    [] p[1] = "Try" -> TryRun(p[2], s)
    [] p[1] = "Ref" -> Run(Parsers[p[2]], [s EXCEPT !.Log = Append(@, p[2])])

\* Parser.Parse: a fresh cursor over source, handed to p.
Parse(p, source) == Run(p, ParseState(source))

-----------------------------------------------------------------------------
\* The state machine: one cursor, created by Parse and then handed to one
\* parser after another.  pre is the cursor as the last parser found it, op
\* names that parser, res is what it returned.

SeqsUpTo(S, n) == UNION {[1..k -> S] : k \in 0..n}

Outcome(r) == [ok |-> r.ok, val |-> r.val, err |-> r.err]

\* A parser is applied to a cursor that is waiting for one: fresh from Parse,
\* or handed on by Continue.
Idle == op.name \in {"Parse", "Continue"}

Step(name, i, j, p) ==
  LET r == Run(p, st) IN
  /\ pre' = st
  /\ op' = [name |-> name, p1 |-> i, p2 |-> j]
  /\ st' = r.st
  /\ res' = Outcome(r)

\* The enclosing combinator hands the cursor to its next parser: after a
\* success (Bind, Then), or after a failure that left Pos where it was
\* (Either).  Any other failure ends the parse.
Continue ==
  /\ ~Idle
  /\ res.ok \/ st.Pos = pre.Pos
  /\ st.Line < MaxLine
  /\ st' = [st EXCEPT !.Log = <<>>]
  /\ pre' = st'
  /\ op' = [name |-> "Continue", p1 |-> 0, p2 |-> 0]
  /\ res' = Outcome(Ok(st, Nil))

InitOver(sources) ==
  /\ st \in {ParseState(src) : src \in sources}
  /\ pre = st
  /\ op = [name |-> "Parse", p1 |-> 0, p2 |-> 0]
  /\ res = Outcome(Ok(st, Nil))

CoreAlphabet == {"a", "b", NL}

Init == InitOver(SeqsUpTo(CoreAlphabet, MaxLen))

-----------------------------------------------------------------------------
\* Choice, full backtrack and end of input.

DoParser == \E i \in 1..NParsers : Idle /\ Step("Parser", i, 0, Ref(i))

DoEither ==
  \E i, j \in 1..NParsers : Idle /\ Step("Either", i, j, Either(Ref(i), Ref(j)))

DoOr == \E i, j \in 1..NParsers : Idle /\ Step("Or", i, j, Or(Ref(i), Ref(j)))

DoTry == \E i \in 1..NParsers : Idle /\ Step("Try", i, 0, Try(Ref(i)))

DoEitherTry ==
  \E i, j \in 1..NParsers :
    Idle /\ Step("EitherTry", i, j, Either(Try(Ref(i)), Ref(j)))

DoEol == Idle /\ Step("Eol", 1, 2, Eol)

Next ==
  DoParser \/ DoEither \/ DoOr \/ DoTry \/ DoEitherTry \/ DoEol \/ Continue

Spec == Init /\ [][Next]_vars

\* The named parser i run alone on cursor s.
Alone(i, s) == Run(Ref(i), s)

\* The number of newline bytes in source[0 .. pos).
RECURSIVE NewlinesBefore(_, _)
NewlinesBefore(source, pos) ==
  IF pos = 0 THEN 0
  ELSE NewlinesBefore(source, pos - 1) + (IF source[pos] = NL THEN 1 ELSE 0)

IsChoice == op.name \in {"Either", "Or"}

\* C1: when P1 fails leaving Pos where it was, Either(P1, P2) and P1.Or(P2)
\* return what P2 returns when run alone from the cursor P1 was given: the
\* same value or the same failure, and the same final position.
ChoiceBacktrackLaw ==
  IsChoice =>
    LET r1 == Alone(op.p1, pre)
        r2 == Alone(op.p2, pre)
    IN (~r1.ok /\ r1.st.Pos = pre.Pos) =>
         (res = Outcome(r2) /\ st.Pos = r2.st.Pos)

\* C2: when P1 fails after consuming, Either(P1, P2) returns P1's failure
\* and leaves the cursor as P1 left it; P2 is not run (Log holds P1 alone).
ChoiceNoBacktrackLaw ==
  IsChoice =>
    LET r1 == Alone(op.p1, pre) IN
    (~r1.ok /\ r1.st.Pos # pre.Pos) =>
      (res = Outcome(r1) /\ st = r1.st /\ st.Log = <<op.p1>>)

\* Either failed after P1 consumed, with a P2 that would have succeeded.
ChoiceNoBacktrackWitness ==
  /\ IsChoice
  /\ ~res.ok
  /\ st.Pos > pre.Pos
  /\ Alone(op.p2, pre).ok
  /\ Alone(op.p2, st).ok

\* C3: a failing Try(P) returns P's failure with Pos where it was before P,
\* a succeeding Try(P) returns P's value and leaves P's cursor; and
\* Either(Try(P1), P2) runs P2 from that position whenever P1 fails.
FullBacktrackLaw ==
  /\ op.name = "Try" =>
       LET r == Alone(op.p1, pre) IN
       IF r.ok THEN res = Outcome(r) /\ st = r.st
       ELSE ~res.ok /\ res.err = r.err /\ st.Pos = pre.Pos
  /\ op.name = "EitherTry" =>
       LET r1 == Alone(op.p1, pre) IN
       ~r1.ok =>
         LET r2 == Alone(op.p2, [r1.st EXCEPT !.Pos = pre.Pos]) IN
         /\ st.Log = <<op.p1, op.p2>>
         /\ res = Outcome(r2)
         /\ st = r2.st

\* P1 failed after consuming, and Either(Try(P1), P2) succeeded through P2.
FullBacktrackWitness ==
  /\ op.name = "EitherTry"
  /\ ~Alone(op.p1, pre).ok
  /\ Alone(op.p1, pre).st.Pos > pre.Pos
  /\ res.ok
  /\ st.Pos > pre.Pos

\* C6: Line is 1 plus the number of newline bytes in Source[0 .. Pos).
LineDerivedFromPos == st.Line = 1 + NewlinesBefore(st.Source, st.Pos)

\* C10: Eof succeeds without consuming exactly at the end of the input and
\* otherwise fails one byte further on; Eol succeeds only at the end of the
\* input, and otherwise fails with Eof's failure, one byte further on,
\* without running Newline.
EofConsumesOnFailure ==
  LET atEnd == pre.Pos = Len(pre.Source) IN
  /\ (op.name = "Parser" /\ Parsers[op.p1] = Eof) =>
       IF atEnd THEN res.ok /\ st.Pos = pre.Pos
       ELSE ~res.ok /\ st.Pos = pre.Pos + 1
  /\ op.name = "Eol" =>
       IF atEnd THEN res.ok /\ st.Pos = pre.Pos
       ELSE /\ ~res.ok
            /\ res.err = Alone(1, pre).err
            /\ res.err.Reason[1] = "Expected end of file but got '%c'"
            /\ st.Pos = pre.Pos + 1
            /\ st.Log = <<1>>

\* Eol failed in front of a newline byte.
EofConsumesWitness ==
  /\ op.name = "Eol"
  /\ pre.Pos < Len(pre.Source)
  /\ pre.Source[pre.Pos + 1] = NL
  /\ ~res.ok

-----------------------------------------------------------------------------
\* Repetition, literals and repeat-until.

\* The named parsers that consume whenever they succeed.  Many, Many1 and
\* ManyTill call themselves again after each success of p, so with a p that
\* succeeds without consuming they never return; they are applied to these.
Consuming == {i \in 1..NParsers : Parsers[i][1] \notin {"Eof", "Return"}}

\* The literals String is applied to.
Literals ==
  << <<>>, <<"a">>, <<"a", "b">>, <<NL, "a">>, <<"b", "a", "b">> >>

DoMany == \E i \in Consuming : Idle /\ Step("Many", i, 0, Many(Ref(i)))

DoMany1 == \E i \in Consuming : Idle /\ Step("Many1", i, 0, Many1(Ref(i)))

DoString ==
  \E k \in 1..Len(Literals) : Idle /\ Step("String", k, 0, String(Literals[k]))

DoManyTill ==
  \E i \in Consuming, j \in 1..NParsers :
    Idle /\ Step("ManyTill", i, j, ManyTill(Ref(i), Ref(j)))

NextRep == DoMany \/ DoMany1 \/ DoString \/ DoManyTill \/ Continue

SpecRep == Init /\ [][NextRep]_vars

\* C4 as stated: Many(P) never fails, and Many1(P) fails exactly when the
\* first application of P fails.
RepetitionTotality ==
  /\ op.name = "Many" => res.ok
  /\ op.name = "Many1" => (~res.ok <=> ~Alone(op.p1, pre).ok)

\* Parser i, applied anywhere from the cursor s on, never fails having moved
\* Pos.
NoPartialFailure(i, s) ==
  \A q \in s.Pos..Len(s.Source) :
    LET r == Alone(i, [s EXCEPT !.Pos = q]) IN ~r.ok => r.st.Pos = q

\* C4, amended: for a P that consumes whenever it succeeds and never fails
\* after consuming, Many(P) never fails, and Many1(P) fails exactly when the
\* first application of P fails.
RepetitionTotalityNoPartial ==
  /\ (op.name = "Many" /\ NoPartialFailure(op.p1, pre)) => res.ok
  /\ (op.name = "Many1" /\ NoPartialFailure(op.p1, pre)) =>
       (~res.ok <=> ~Alone(op.p1, pre).ok)

\* Many collected two items and was stopped by a failure of P before the
\* end of the input.
RepetitionWitness ==
  /\ op.name = "Many"
  /\ NoPartialFailure(op.p1, pre)
  /\ res.ok
  /\ Len(res.val[2]) >= 2
  /\ st.Pos < Len(st.Source)

\* C5: String(s) at position p succeeds exactly when the bytes of the source
\* at p .. p+len(s)-1 are those of s, and then returns s with Pos at
\* p+len(s); otherwise it fails with Pos back at p.
LiteralMatching ==
  op.name = "String" =>
    LET s == Literals[op.p1]
        p == pre.Pos
        matches == /\ p + Len(s) <= Len(pre.Source)
                   /\ \A k \in 1..Len(s) : pre.Source[p + k] = s[k]
    IN IF matches
       THEN res.ok /\ res.val = StrVal(s) /\ st.Pos = p + Len(s)
       ELSE ~res.ok /\ st.Pos = p

\* String failed past its first byte, away from the start of the input.
LiteralWitness ==
  /\ op.name = "String"
  /\ ~res.ok
  /\ pre.Pos > 0
  /\ pre.Pos < Len(pre.Source)
  /\ pre.Source[pre.Pos + 1] = Literals[op.p1][1]

\* ManyTill(P, End) told as a loop: probe End; if the probe fails put Pos
\* back and apply P; collect P's values in order until End succeeds.
RECURSIVE ManyTillLoop(_, _, _, _)
ManyTillLoop(i, j, s, acc) ==
  LET probe == Alone(j, s) IN
  IF probe.ok THEN Ok(probe.st, ListVal(acc))
  ELSE LET r == Alone(i, [probe.st EXCEPT !.Pos = s.Pos]) IN
       IF ~r.ok THEN Failed(r.st, r.err)
       ELSE ManyTillLoop(i, j, r.st, Append(acc, r.val))

\* C8: ManyTill(P, End) probes End first at each step, a failed probe leaving
\* Pos where the probe began; when End succeeds the result is the values of
\* the applications of P made before it, in order, with the cursor after
\* End's match; when P fails first, ManyTill fails with P's failure.
ManyTillLaw ==
  op.name = "ManyTill" =>
    LET r == ManyTillLoop(op.p1, op.p2, pre, <<>>) IN
    res = Outcome(r) /\ st = r.st

\* ManyTill returned two items or more after a consuming End.
ManyTillWitness ==
  /\ op.name = "ManyTill"
  /\ res.ok
  /\ Len(res.val[2]) >= 2
  /\ res.val[2][1] # res.val[2][2]
  /\ st.Pos = Len(res.val[2]) + pre.Pos + 1

-----------------------------------------------------------------------------
\* The example of README.md.

cell == ToString(Many(NoneOf(<<",", NL>>)))
line == SepBy(cell, Char(","))
csv == SepBy(line, Char(NL))

Example ==
  << "f", "o", "o", ",", "b", "a", "r", NL,
     "h", "e", "l", "l", "o", ",", "w", "o", "r", "l", "d", ",", "1", "2", "3" >>

CsvAlphabet == {"a", "b", ",", NL}

InitCsv == InitOver(SeqsUpTo(CsvAlphabet, MaxCsvLen) \cup {Example})

\* csv.Parse(source), the cursor being fresh.
DoCsv ==
  /\ op.name = "Parse"
  /\ LET r == Parse(csv, st.Source) IN
     /\ pre' = st
     /\ op' = [name |-> "Csv", p1 |-> 0, p2 |-> 0]
     /\ st' = r.st
     /\ res' = Outcome(r)

NextCsv == DoCsv

SpecCsv == InitCsv /\ [][NextCsv]_vars

\* The pieces of s between the occurrences of sep.
RECURSIVE SplitOn(_, _)
SplitOn(s, sep) ==
  IF \A k \in 1..Len(s) : s[k] # sep THEN <<s>>
  ELSE LET k == CHOOSE k \in 1..Len(s) :
                  s[k] = sep /\ \A m \in 1..(k - 1) : s[m] # sep
       IN <<SubSeq(s, 1, k - 1)>> \o SplitOn(SubSeq(s, k + 1, Len(s)), sep)

\* s split on line ends and each piece on commas, as a result value.
Table(s) ==
  LET rows == SplitOn(s, NL)
      Row(r) == LET cells == SplitOn(r, ",") IN
                ListVal([j \in 1..Len(cells) |-> StrVal(cells[j])])
  IN ListVal([i \in 1..Len(rows) |-> Row(rows[i])])

ExampleTable ==
  ListVal(<< ListVal(<< StrVal(<<"f", "o", "o">>), StrVal(<<"b", "a", "r">>) >>),
             ListVal(<< StrVal(<<"h", "e", "l", "l", "o">>),
                        StrVal(<<"w", "o", "r", "l", "d">>),
                        StrVal(<<"1", "2", "3">>) >>) >>)

\* C7: csv.Parse(I) succeeds for every input I, returns I split on '\n' and
\* each piece split on ',', and leaves the cursor at the end of I; the
\* example of README.md returns [["foo","bar"],["hello","world","123"]].
CsvRoundTrip ==
  op.name = "Csv" =>
    /\ res.ok
    /\ res.val = Table(pre.Source)
    /\ st.Pos = Len(st.Source)
    /\ pre.Source = Example => res.val = ExampleTable

\* The example of README.md has been parsed.
CsvWitness ==
  /\ op.name = "Csv"
  /\ pre.Source = Example
  /\ res.ok
  /\ Len(res.val[2]) = 2

-----------------------------------------------------------------------------
\* The hex-digit parsers.

HexAlphabet ==
  Range(DigitBytes) \cup {"a", "b", "c", "d", "e", "f"}
    \cup {"A", "B", "C", "D", "E", "F"} \cup {"g", "G", NL}

InitHex == InitOver(SeqsUpTo(HexAlphabet, MaxHexLen))

DoHexDigit == Idle /\ Step("HexDigit", 0, 0, HexDigit)

DoHexDigits == Idle /\ Step("HexDigits", 0, 0, HexDigits)

NextHex == DoHexDigit \/ DoHexDigits \/ Continue

SpecHex == InitHex /\ [][NextHex]_vars

\* The hexadecimal digits.
IsHexDigit ==
  Range(DigitBytes) \cup {"a", "b", "c", "d", "e", "f"}
    \cup {"A", "B", "C", "D", "E", "F"}

\* The length of the run of hexadecimal digits of source from pos on.
RECURSIVE HexRun(_, _)
HexRun(source, pos) ==
  IF pos < Len(source) /\ source[pos + 1] \in IsHexDigit
  THEN 1 + HexRun(source, pos + 1)
  ELSE 0

\* C9: HexDigit succeeds, consuming one byte, exactly when the next byte is
\* a hexadecimal digit, and fails without consuming otherwise; HexDigits
\* accepts exactly the non-empty runs of hexadecimal digits.
HexDigitLaw ==
  LET n == HexRun(pre.Source, pre.Pos) IN
  /\ op.name = "HexDigit" =>
       IF n >= 1
       THEN /\ res.ok
            /\ res.val = ByteVal(pre.Source[pre.Pos + 1])
            /\ st.Pos = pre.Pos + 1
       ELSE ~res.ok /\ st.Pos = pre.Pos
  /\ op.name = "HexDigits" =>
       IF n >= 1 THEN res.ok /\ st.Pos = pre.Pos + n
       ELSE ~res.ok /\ st.Pos = pre.Pos

====
